---- MODULE Spec2Model ----
(***************************************************************************)
(* ProductForge PDF engine: PDFBuilder.build, RenderContext, the page      *)
(* renderers and the chapter renderer's pagination loop.                    *)
(*                                                                         *)
(* Units.  Lengths are in 1/100 pt (Pt(30) is 30 pt).  Font sizes are in    *)
(* half points (Hp(11) = 22 is 11 pt; 29 is 14.5 pt), line-height factors   *)
(* in 1/100 (165 is 1.65), so size * factor / 2 is a length.  Glyph widths  *)
(* are in 1/1000 em, as in font metrics, so                                 *)
(* stringWidth(t, font, size) = units(t) * size / 2000 pt                   *)
(*                            = units(t) * size / 20      (1/100 pt).       *)
(* Arithmetic is exact; the code computes in binary floating point.         *)
(*                                                                         *)
(* A text is a sequence of tokens: n > 0 is a word n glyph units wide (the  *)
(* words of a text are separated by single spaces), 0 is a lone space.      *)
(* << >> is the empty string, <<0>> a whitespace-only string.               *)
(***************************************************************************)
EXTENDS Integers, Sequences, FiniteSets, TLC

Pt(n) == n * 100

Hp(n) == n * 2

\* reportlab.lib.units.inch = 72 pt; Inch(8) is 0.8 inch
Inch(tenths) == (tenths * 7200) \div 10

-----------------------------------------------------------------------------
\* Bounds of the model

MaxPages == 2

MaxParas == 3

MaxBuildParas == 1

\* a page of the tight designs holds PageLines body lines
PageLines == 16

\* largest max_size tried by the title-fitting runs, in half points
MaxTitleSize == 40

\* builds running in threads at the same time
NumThreads == 2

MaxCalls == 3

-----------------------------------------------------------------------------
\* Text metrics: reportlab.lib.utils.simpleSplit as the renderers call it

SpaceWidth(font) == IF font = "Courier" THEN 600 ELSE 278

\* str.split(): the words of the text
SplitWords(text) == SelectSeq(text, LAMBDA t : t > 0)

\* _simpleSplit's loop: n words are on the line being filled and w is its
\* width; a word joins the line when it fits or the line is empty, otherwise
\* the line is closed and the word starts the next one.  Widths are glyph
\* units * size, compared with 20 * maxWidth.  Returns the lines, each as
\* its width.
RECURSIVE SplitLoop(_, _, _, _, _, _, _)
SplitLoop(words, i, n, w, L, ws, cap) ==
    IF i > Len(words)
    THEN IF n > 0 THEN Append(L, w) ELSE L
    ELSE LET lt == words[i] * cap.size
         IN IF w + ws + lt <= cap.mw \/ n = 0
            THEN SplitLoop(words, i + 1, n + 1, w + ws + lt, L, ws, cap)
            ELSE SplitLoop(words, i + 1, 1, lt, Append(L, w), ws, cap)

RECURSIVE JoinedWidth(_, _, _)
JoinedWidth(words, ws, size) ==
    IF words = << >> THEN 0
    ELSE IF Len(words) = 1 THEN words[1] * size
    ELSE words[1] * size + ws + JoinedWidth(Tail(words), ws, size)

\* simpleSplit(text, font, size, maxWidth): the wrapped lines.  A maxWidth of
\* 0 is falsy and leaves the text unwrapped, on one line.
simpleSplit(text, font, size, maxWidth) ==
    LET ws == SpaceWidth(font) * size
    IN IF maxWidth = 0
       THEN << JoinedWidth(SplitWords(text), ws, size) >>
       ELSE SplitLoop(SplitWords(text), 1, 0, 0 - ws, << >>, ws,
                      [size |-> size, mw |-> 20 * maxWidth])

LineHeight(size, line_height_factor) == (size * line_height_factor) \div 2

\* chapter._text_height
\* Variant: _text_height wrapping at the width left beside max_width
TextHeightBeside(text, font, size, max_width, line_height_factor) ==
    Len(simpleSplit(text, font, size, Pt(432) - max_width))
        * LineHeight(size, line_height_factor)

TextHeight(text, font, size, max_width, line_height_factor) ==
    Len(simpleSplit(text, font, size, max_width))
        * LineHeight(size, line_height_factor)

-----------------------------------------------------------------------------
\* RenderContext

\* context.PAGE_SIZES.get(page_size, letter); A4 is 595.28 x 841.89 pt
PageSize(page_size) ==
    IF page_size = "a4" THEN [W |-> 59528, H |-> 84189]
    ELSE [W |-> Pt(612), H |-> Pt(792)]

\* dict.get(key, default)
Get(dict, key, default) == IF key \in DOMAIN dict THEN dict[key] ELSE default

PAGE_SIZES == [letter |-> [W |-> Pt(612), H |-> Pt(792)],
               a4     |-> [W |-> 59528, H |-> 84189]]

\* Variant: a RenderContext falling back to A4
RenderContextInitA4(design) ==
    LET size == Get(PAGE_SIZES, design.page_size, PAGE_SIZES.a4)
        left == Get(design.margins, "left", Pt(90))
        right == Get(design.margins, "right", Pt(90))
    IN [W             |-> size.W,
        H             |-> size.H,
        margin_left   |-> left,
        margin_right  |-> right,
        margin_top    |-> Get(design.margins, "top", Pt(80)),
        margin_bottom |-> Get(design.margins, "bottom", Pt(60)),
        text_area_w   |-> size.W - left - right,
        page_num      |-> 0]

\* RenderContext.__init__
RenderContextInit(design) ==
    LET size == PageSize(design.page_size)
        left == Get(design.margins, "left", Pt(90))
        right == Get(design.margins, "right", Pt(90))
    IN [W             |-> size.W,
        H             |-> size.H,
        margin_left   |-> left,
        margin_right  |-> right,
        margin_top    |-> Get(design.margins, "top", Pt(80)),
        margin_bottom |-> Get(design.margins, "bottom", Pt(60)),
        text_area_w   |-> size.W - left - right,
        page_num      |-> 0]

\* RenderContext.font: design.fonts.get(role, "Helvetica")
FontOf(design, role) ==
    IF role \in DOMAIN design.fonts THEN design.fonts[role] ELSE "Helvetica"

\* RenderContext.draw_text_wrapped: one drawString per wrapped line, each at
\* the current y on the canvas page `page`, y lowered by the line height
\* after each.  Returns the lines drawn and the y after the last line.
RECURSIVE DrawLines(_, _, _, _)
DrawLines(n, y, line_height, page) ==
    IF n = 0 THEN << >>
    ELSE << [page |-> page, y |-> y] >>
            \o DrawLines(n - 1, y - line_height, line_height, page)

\* Variant: draw_text_wrapped finalizing the page after the first line
DrawTextWrappedSplit(text, font, size, y, max_width, line_height_factor, page) ==
    LET lines == simpleSplit(text, font, size, max_width)
        line_height == LineHeight(size, line_height_factor)
    IN [lines |-> IF Len(lines) = 0 THEN << >>
                  ELSE << [page |-> page, y |-> y] >>
                       \o DrawLines(Len(lines) - 1, y - line_height,
                                    line_height, page + 1),
        y     |-> y - Len(lines) * line_height]

\* Variant: draw_text_wrapped stepping by its default factor of 1.65
DrawTextWrappedDefault(text, font, size, y, max_width, line_height_factor, page) ==
    LET lines == simpleSplit(text, font, size, max_width)
        line_height == LineHeight(size, 165)
    IN [lines |-> DrawLines(Len(lines), y, line_height, page),
        y     |-> y - Len(lines) * line_height]

DrawTextWrapped(text, font, size, y, max_width, line_height_factor, page) ==
    LET lines == simpleSplit(text, font, size, max_width)
        line_height == LineHeight(size, line_height_factor)
    IN [lines |-> DrawLines(Len(lines), y, line_height, page),
        y     |-> y - Len(lines) * line_height]

\* RenderContext.draw_title_fitted: the size search (while ... else)
RECURSIVE FitLoop(_, _, _, _, _)
FitLoop(text, font, size, min_size, max_width) ==
    IF size > min_size
    THEN LET lines == simpleSplit(text, font, size, max_width)
         IN IF Len(lines) <= 3
            THEN [size |-> size, lines |-> Len(lines)]
            ELSE FitLoop(text, font, size - Hp(1), min_size, max_width)
    ELSE [size  |-> min_size,
          lines |-> Len(simpleSplit(text, font, min_size, max_width))]

\* Variant: the size search accepting at most 2 lines
RECURSIVE FitLoopTwoLines(_, _, _, _, _)
FitLoopTwoLines(text, font, size, min_size, max_width) ==
    IF size > min_size
    THEN LET lines == simpleSplit(text, font, size, max_width)
         IN IF Len(lines) <= 2
            THEN [size |-> size, lines |-> Len(lines)]
            ELSE FitLoopTwoLines(text, font, size - Hp(1), min_size, max_width)
    ELSE [size  |-> min_size,
          lines |-> Len(simpleSplit(text, font, min_size, max_width))]

DrawTitleFittedTwoLines(text, font, max_size, min_size, y, max_width, line_height_factor) ==
    LET fit == FitLoopTwoLines(text, font, max_size, min_size, max_width)
    IN [size  |-> fit.size,
        lines |-> fit.lines,
        y     |-> y - fit.lines * LineHeight(fit.size, line_height_factor)]

\* RenderContext.draw_title_fitted: the size chosen, the number of lines
\* drawn and the y after the last line
DrawTitleFitted(text, font, max_size, min_size, y, max_width, line_height_factor) ==
    LET fit == FitLoop(text, font, max_size, min_size, max_width)
    IN [size  |-> fit.size,
        lines |-> fit.lines,
        y     |-> y - fit.lines * LineHeight(fit.size, line_height_factor)]

-----------------------------------------------------------------------------
\* Inputs

Range(f) == {f[i] : i \in DOMAIN f}

SeqsUpTo(S, n) == UNION {[1..m -> S] : m \in 0..n}

Blank == << >>

Whitespace == << 0 >>

\* n words, each too wide to share a line of the text area: n lines
LongWords(n) == [i \in 1..n |-> 20000]

\* n words, two of which share a line at small sizes
Words(n) == [i \in 1..n |-> 13000]

BodyTexts ==
    {Blank, Whitespace, LongWords(1), LongWords(PageLines - 1),
     LongWords(PageLines), LongWords(PageLines + 1)}

\* chapter_number and chapter_title of a chapter's data
ChapterHeads ==
    {[number |-> FALSE, title |-> Blank], [number |-> TRUE, title |-> Words(4)]}

DefaultMargins ==
    [left |-> Pt(90), right |-> Pt(90), top |-> Pt(80), bottom |-> Pt(60)]

BuiltinFonts ==
    [heading |-> "Helvetica-Bold", body |-> "Helvetica", mono |-> "Courier"]

\* The tight designs leave room for exactly PageLines body lines between the
\* layout's content start and its bottom limit, with every margin below
\* half the page.
Designs ==
    {[layout |-> "editorial", page_size |-> "letter", fonts |-> BuiltinFonts,
      author |-> FALSE,
      margins |-> [DefaultMargins EXCEPT
          !.bottom = Pt(792) - Pt(80) - Pt(40) - Pt(30)
                        - PageLines * LineHeight(Hp(11), 165)]],
     [layout |-> "clean", page_size |-> "letter", fonts |-> BuiltinFonts,
      author |-> FALSE,
      margins |-> [DefaultMargins EXCEPT
          !.bottom = Pt(792) - Inch(8) - Pt(30)
                        - PageLines * LineHeight(Hp(11), 185)]],
     [layout |-> "warm", page_size |-> "letter", fonts |-> BuiltinFonts,
      author |-> TRUE,
      margins |-> [DefaultMargins EXCEPT
          !.bottom = Pt(792) - Pt(90) - Pt(40)
                        - PageLines * LineHeight(Hp(11), 185)]],
     [layout |-> "modern", page_size |-> "a4", fonts |-> [body |-> "Helvetica"],
      author |-> FALSE, margins |-> DefaultMargins]}

KnownTypes ==
    {"cover", "letter", "prompt", "writing", "cta", "toc", "section", "chapter"}

PageTypes == KnownTypes \cup {"nonexistent"}

-----------------------------------------------------------------------------
\* State

VARIABLES
    config,    \* the ProductConfig being built: design and page types
    pc,        \* "start", "dispatch", "chapter", "done", "raised", "fn"
    idx,       \* position of build's for loop in config.pages
    ctx,       \* the RenderContext
    shown,     \* canvas: pages finalized by showPage
    cur,       \* canvas: operations on the page not yet finalized
    owners,    \* for each finalized page, the PageSpec that finalized it
    numbers,   \* canvas: the page numbers drawn, each with the page it is on
    calls,     \* the renderers build has invoked, in order
    contexts,  \* RenderContexts created by this build
    result,    \* what build returned: "none" or "bytes"
    err,       \* the page type named by the ValueError build raised
    ch,        \* the chapter renderer's locals
    last,      \* the last paragraph the chapter loop handled
    lastCall,  \* the last renderer invocation
    build,     \* 1 for the first build, 2 for the second
    prev,      \* what the first build did, kept for the second
    fn,        \* a call of draw_title_fitted or _text_height on its own
    data,      \* the dictionary handed to ProductConfig.from_dict
    pagesize,  \* canvas: the page size build created it with
    registered,  \* fonts._registered
    pdfmetrics,  \* for each bundled font, the registerFont calls made for it
    files,     \* for each bundled font, its file: "ok", "missing", "corrupt"
    th         \* the builds running in threads

fontvars == <<registered, pdfmetrics, files, th>>

vars ==
    <<config, pc, idx, ctx, shown, cur, owners, numbers, calls, contexts,
      result, err, ch, last, lastCall, build, prev, fn, data, pagesize,
      fontvars>>

NoContext ==
    [W |-> 0, H |-> 0, margin_left |-> 0, margin_right |-> 0, margin_top |-> 0,
     margin_bottom |-> 0, text_area_w |-> 0, page_num |-> 0]

NoChapter ==
    [variant |-> "", y |-> 0, number |-> FALSE, title |-> Blank,
     paras |-> << >>, placed |-> << >>]

NoLast ==
    [kind |-> "none", text |-> Blank, y0 |-> 0, needed |-> 0, shown0 |-> 0,
     lines |-> << >>, y1 |-> 0]

NoCall == [renderer |-> "", pn0 |-> 0, shown0 |-> 0, ops |-> << >>]

NoPrev ==
    [number |-> FALSE, title |-> Blank, paras |-> << >>, placed |-> << >>,
     shown |-> 0, page_num |-> 0]

NoData == [k \in {} |-> 0]

NoPageSize == [W |-> 0, H |-> 0]

NoFn ==
    [text |-> Blank, max_size |-> 0, min_size |-> 0, max_width |-> 0,
     size |-> 0, lines |-> 0]

-----------------------------------------------------------------------------
\* Canvas operations.  An operation is named by the RenderContext method or
\* canvas call that performs it; "content" stands for a renderer's own text
\* and shapes, which touch neither the page counter nor the page boundary.

\* Variant: new_page counting the page it finalizes
RunOpShowCounts(st, op) ==
    IF op \in {"start_page:background", "start_page:primary"}
    THEN \* RenderContext.start_page: count the page, fill the background
         [st EXCEPT !.page_num = @ + 1, !.cur = Append(@, op)]
    ELSE IF op = "page_num+=1"
    THEN [st EXCEPT !.page_num = @ + 1]
    ELSE IF op = "showPage"
    THEN \* RenderContext.new_page
         [st EXCEPT !.shown = @ + 1, !.cur = << >>, !.page_num = @ + 1]
    ELSE IF op \in {"page_number:right", "page_number:center"}
    THEN \* RenderContext.draw_page_number
         \* if self._page_num < 2: return; else draws str(self._page_num)
         \* on the page the canvas has open, the one after the shown ones
         IF st.page_num < 2 THEN st
         ELSE [st EXCEPT !.cur = Append(@, op),
                         !.numbers = Append(@, [printed |-> st.page_num,
                                                page |-> st.shown + 1])]
    ELSE [st EXCEPT !.cur = Append(@, op)]

\* Variant: draw_page_number numbering the first page too
RunOpNumbersAll(st, op) ==
    IF op \in {"start_page:background", "start_page:primary"}
    THEN \* RenderContext.start_page: count the page, fill the background
         [st EXCEPT !.page_num = @ + 1, !.cur = Append(@, op)]
    ELSE IF op = "page_num+=1"
    THEN [st EXCEPT !.page_num = @ + 1]
    ELSE IF op = "showPage"
    THEN \* RenderContext.new_page
         [st EXCEPT !.shown = @ + 1, !.cur = << >>]
    ELSE IF op \in {"page_number:right", "page_number:center"}
    THEN \* RenderContext.draw_page_number
         \* if self._page_num < 2: return; else draws str(self._page_num)
         \* on the page the canvas has open, the one after the shown ones
         IF st.page_num < 1 THEN st
         ELSE [st EXCEPT !.cur = Append(@, op),
                         !.numbers = Append(@, [printed |-> st.page_num,
                                                page |-> st.shown + 1])]
    ELSE [st EXCEPT !.cur = Append(@, op)]

\* the effect of one operation on [page_num, shown, cur, numbers]
RunOp(st, op) ==
    IF op \in {"start_page:background", "start_page:primary"}
    THEN \* RenderContext.start_page: count the page, fill the background
         [st EXCEPT !.page_num = @ + 1, !.cur = Append(@, op)]
    ELSE IF op = "page_num+=1"
    THEN [st EXCEPT !.page_num = @ + 1]
    ELSE IF op = "showPage"
    THEN \* RenderContext.new_page
         [st EXCEPT !.shown = @ + 1, !.cur = << >>]
    ELSE IF op \in {"page_number:right", "page_number:center"}
    THEN \* RenderContext.draw_page_number
         \* if self._page_num < 2: return; else draws str(self._page_num)
         \* on the page the canvas has open, the one after the shown ones
         IF st.page_num < 2 THEN st
         ELSE [st EXCEPT !.cur = Append(@, op),
                         !.numbers = Append(@, [printed |-> st.page_num,
                                                page |-> st.shown + 1])]
    ELSE [st EXCEPT !.cur = Append(@, op)]

RECURSIVE RunOps(_, _)
RunOps(ops, st) ==
    IF ops = << >> THEN st ELSE RunOps(Tail(ops), RunOp(st, Head(ops)))

-----------------------------------------------------------------------------
\* Renderers

\* Variant: a registry whose "toc" entry names the section renderer
RenderersGetSwapped(type) ==
    IF type = "toc" THEN "section"
    ELSE IF type \in KnownTypes THEN type ELSE "None"

\* builder.RENDERERS.get(page_spec.type): the renderer module, or "None"
RenderersGet(type) == IF type \in KnownTypes THEN type ELSE "None"

\* render(): if layout == "editorial" ... elif layout == "warm" ... else clean
Variant(layout) ==
    IF layout = "editorial" THEN "editorial"
    ELSE IF layout = "warm" THEN "warm"
    ELSE "clean"

\* Variant: a clean cover that draws without counting its page
CoverOpsUncounted(layout) ==
    IF Variant(layout) = "editorial"
    THEN << "start_page:background", "content", "showPage" >>
    ELSE IF Variant(layout) = "warm"
    THEN << "page_num+=1", "gradient", "frame_lines", "content", "showPage" >>
    ELSE << "gradient", "content", "showPage" >>

CoverOps(layout) ==
    IF Variant(layout) = "editorial"
    THEN << "start_page:background", "content", "showPage" >>
    ELSE IF Variant(layout) = "warm"
    THEN << "page_num+=1", "gradient", "frame_lines", "content", "showPage" >>
    ELSE << "page_num+=1", "gradient", "content", "showPage" >>

LetterOps(layout) ==
    IF Variant(layout) = "editorial"
    THEN << "start_page:background", "content", "page_number:right",
            "showPage" >>
    ELSE IF Variant(layout) = "warm"
    THEN << "start_page:primary", "top_line", "content", "page_number:center",
            "showPage" >>
    ELSE << "start_page:background", "header_bar", "content",
            "page_number:center", "showPage" >>

PromptOps(layout) ==
    IF Variant(layout) = "editorial"
    THEN << "start_page:background", "content", "page_number:right",
            "showPage" >>
    ELSE IF Variant(layout) = "warm"
    THEN << "start_page:primary", "top_line", "content", "page_number:center",
            "showPage" >>
    ELSE << "start_page:background", "header_bar", "content",
            "page_number:center", "showPage" >>

WritingOps(layout) ==
    IF Variant(layout) = "editorial"
    THEN << "start_page:background", "content", "page_number:right",
            "showPage" >>
    ELSE IF Variant(layout) = "warm"
    THEN << "start_page:primary", "top_line", "content", "footer",
            "page_number:center", "showPage" >>
    ELSE << "start_page:background", "header_bar", "content",
            "page_number:center", "showPage" >>

CtaOps(layout) ==
    IF Variant(layout) = "editorial"
    THEN << "start_page:background", "content", "page_number:right",
            "showPage" >>
    ELSE IF Variant(layout) = "warm"
    THEN << "start_page:primary", "content", "page_number:center",
            "showPage" >>
    ELSE << "start_page:background", "header_bar", "content",
            "page_number:center", "showPage" >>

\* toc.render has no variants: the header bar is drawn when layout == "clean"
TocOps(layout) ==
    << "start_page:background" >>
    \o (IF layout = "clean" THEN << "header_bar" >> ELSE << >>)
    \o << "content", "page_number:center", "showPage" >>

SectionOps(layout) ==
    << "start_page:primary", "content", "page_number:center", "showPage" >>

\* The chapter renderer's per-layout values
ChapterStyle(variant, c) ==
    IF variant = "editorial"
    THEN [start         |-> "start_page:background",
          chrome        |-> << >>,
          body_role     |-> "body",
          body_size     |-> Hp(11),
          max_w         |-> c.text_area_w - Pt(60),
          para_gap      |-> Pt(4),
          blank_gap     |-> Pt(14),
          bottom_limit  |-> c.margin_bottom + Pt(30),
          measure_lhf   |-> 165,
          draw_lhf      |-> 165,
          y_first       |-> c.H - c.margin_top - Pt(40),
          y_next        |-> c.H - c.margin_top - Pt(40),
          number_drop   |-> Pt(30),
          title_role    |-> "heading",
          title_lhf     |-> 140,
          title_drop    |-> Pt(20),
          number_style  |-> "page_number:right",
          footer        |-> FALSE]
    ELSE IF variant = "warm"
    THEN [start         |-> "start_page:primary",
          chrome        |-> << "top_line", "sidebar" >>,
          body_role     |-> "body",
          body_size     |-> Hp(11),
          max_w         |-> c.text_area_w,
          para_gap      |-> Pt(6),
          blank_gap     |-> Pt(12),
          bottom_limit  |-> c.margin_bottom + Pt(40),
          measure_lhf   |-> 185,
          draw_lhf      |-> 185,
          y_first       |-> c.H - Pt(90),
          y_next        |-> c.H - Pt(80),
          number_drop   |-> Pt(30),
          title_role    |-> "Helvetica-Bold",
          title_lhf     |-> 130,
          title_drop    |-> Pt(24),
          number_style  |-> "page_number:center",
          footer        |-> TRUE]
    ELSE [start         |-> "start_page:background",
          chrome        |-> << "header_bar", "sidebar" >>,
          body_role     |-> "body",
          body_size     |-> Hp(11),
          max_w         |-> c.text_area_w,
          para_gap      |-> Pt(6),
          blank_gap     |-> Pt(12),
          bottom_limit  |-> c.margin_bottom + Pt(30),
          measure_lhf   |-> 185,
          draw_lhf      |-> 185,
          y_first       |-> c.H - Inch(8),
          y_next        |-> c.H - Inch(8),
          number_drop   |-> Inch(5),
          title_role    |-> "Helvetica-Bold",
          title_lhf     |-> 130,
          title_drop    |-> Pt(20),
          number_style  |-> "page_number:center",
          footer        |-> FALSE]

\* the font a chapter draws its title with: ctx.font("heading") in the
\* editorial layout, "Helvetica-Bold" in the others
TitleFont(design, style) ==
    IF style.title_role = "heading" THEN FontOf(design, "heading")
    ELSE style.title_role

\* Variant: the decision with <= for <
NeedsBreakInclusive(y, needed, bottom_limit) == y - needed <= bottom_limit

\* Variant: the decision against the page's bottom edge
NeedsBreakAtEdge(y, needed, bottom_limit) == y - needed < 0

\* Variant: a loop that never breaks the page
NeedsBreakNever(y, needed, bottom_limit) == FALSE

\* Variant: the decision against the bottom margin, without the buffer
NeedsBreakAtMargin(y, needed, bottom_limit) == y - needed < bottom_limit - Pt(30)

\* if y - needed < bottom_limit: the page-break decision
NeedsBreak(y, needed, bottom_limit) == y - needed < bottom_limit

\* Variant: a page break that leaves an empty page behind
BreakOpsDouble(style) ==
    << style.number_style, "showPage", style.start, "showPage", style.start >>
        \o style.chrome

\* Variant: a page break that redraws no chrome on the continuation page
BreakOpsBare(style) == << style.number_style, "showPage", style.start >>

\* the operations of a page break: number and finalize the page, start the
\* next one and redraw the layout's chrome
BreakOps(style) ==
    << style.number_style, "showPage", style.start >> \o style.chrome

-----------------------------------------------------------------------------
\* fonts.py

\* BUNDLED_FONTS, in the order register_bundled_fonts walks it
BUNDLED_FONTS == << "Italiana", "CrimsonPro", "CrimsonProItalic", "DMMono" >>

\* the fonts the font service knows without registration
StandardFonts ==
    {"Helvetica", "Helvetica-Bold", "Helvetica-Oblique", "Courier",
     "Times-Roman"}

\* the font names a text draw can use: standard or registered by registerFont
Available(service) ==
    StandardFonts \cup {name \in Range(BUNDLED_FONTS) : service[name] > 0}

NoFonts == [name \in Range(BUNDLED_FONTS) |-> 0]

AllFiles == [name \in Range(BUNDLED_FONTS) |-> "ok"]

\* Variant: a fallback table naming Helvetica for every font
FallbacksHelvetica(name) == "Helvetica"

\* fonts.FALLBACKS.get(name, "Helvetica")
FALLBACKS(name) ==
    IF name \in {"Italiana", "CrimsonPro"} THEN "Helvetica"
    ELSE IF name = "CrimsonProItalic" THEN "Helvetica-Oblique"
    ELSE IF name = "DMMono" THEN "Courier"
    ELSE "Helvetica"

\* Variant: register_bundled_fonts caching every name it has walked
RegisterBundledFontsCacheAll ==
    LET new == {name \in Range(BUNDLED_FONTS) :
                   name \notin registered /\ files[name] = "ok"}
        failed == {name \in Range(BUNDLED_FONTS) :
                      name \notin registered /\ files[name] # "ok"}
    IN [registered |-> Range(BUNDLED_FONTS),
        pdfmetrics |-> [name \in Range(BUNDLED_FONTS) |->
                           IF name \in new THEN pdfmetrics[name] + 1
                           ELSE pdfmetrics[name]],
        resolved   |-> [name \in Range(BUNDLED_FONTS) |->
                           IF name \in failed THEN FALLBACKS(name) ELSE name],
        examined   |-> Range(BUNDLED_FONTS) \ registered,
        warned     |-> failed]

\* register_bundled_fonts run by one build with no other build interleaved:
\* a font already in _registered is skipped; the file of any other font is
\* looked up, a font whose file loads is registered and added, a font whose
\* file is missing or fails to parse is warned about and resolved to its
\* fallback.  Returns the resolved mapping.
RegisterBundledFonts ==
    LET new == {name \in Range(BUNDLED_FONTS) :
                   name \notin registered /\ files[name] = "ok"}
        failed == {name \in Range(BUNDLED_FONTS) :
                      name \notin registered /\ files[name] # "ok"}
    IN [registered |-> registered \cup new,
        pdfmetrics |-> [name \in Range(BUNDLED_FONTS) |->
                           IF name \in new THEN pdfmetrics[name] + 1
                           ELSE pdfmetrics[name]],
        resolved   |-> [name \in Range(BUNDLED_FONTS) |->
                           IF name \in failed THEN FALLBACKS(name) ELSE name],
        examined   |-> Range(BUNDLED_FONTS) \ registered,
        warned     |-> failed]

-----------------------------------------------------------------------------
\* PDFBuilder.build

Canvas ==
    [page_num |-> ctx.page_num, shown |-> shown, cur |-> cur,
     numbers |-> numbers]

\* the canvas and the page counter after running ops for PageSpec idx
Draw(ops) ==
    LET st == RunOps(ops, Canvas)
    IN /\ ctx' = [ctx EXCEPT !.page_num = st.page_num]
       /\ shown' = st.shown
       /\ cur' = st.cur
       /\ owners' = owners \o [j \in 1..(st.shown - shown) |-> idx]
       /\ numbers' = st.numbers

\* Variant: build drawing on the canvas of the build before
BuildStartSameCanvas ==
    /\ pc = "start"
    /\ ctx' = RenderContextInit(config.design)
    /\ contexts' = contexts + 1
    /\ idx' = 1
    /\ pc' = "dispatch"
    /\ registered' = RegisterBundledFonts.registered
    /\ pdfmetrics' = RegisterBundledFonts.pdfmetrics
    /\ pagesize' = Get(PAGE_SIZES, config.design.page_size, PAGE_SIZES.letter)
    /\ UNCHANGED <<config, shown, cur, owners, numbers, calls, result, err, ch, last,
                   lastCall, build, prev, fn, data, files, th>>

\* build up to its for loop: the bundled fonts, a new canvas of the design's
\* page size and the one RenderContext
BuildStart ==
    /\ pc = "start"
    /\ registered' = RegisterBundledFonts.registered
    /\ pdfmetrics' = RegisterBundledFonts.pdfmetrics
    /\ pagesize' = Get(PAGE_SIZES, config.design.page_size, PAGE_SIZES.letter)
    /\ shown' = 0
    /\ cur' = << >>
    /\ ctx' = RenderContextInit(config.design)
    /\ contexts' = contexts + 1
    /\ idx' = 1
    /\ pc' = "dispatch"
    /\ UNCHANGED <<config, owners, numbers, calls, result, err, ch, last, lastCall,
                   build, prev, fn, data, files, th>>

\* one iteration of the for loop whose renderer draws a single page
RenderPage(renderer, ops) ==
    /\ pc = "dispatch"
    /\ idx <= Len(config.pages)
    /\ RenderersGet(config.pages[idx]) = renderer
    /\ Draw(ops)
    /\ calls' = Append(calls, renderer)
    /\ lastCall' = [renderer |-> renderer, pn0 |-> ctx.page_num,
                    shown0 |-> shown, ops |-> ops]
    /\ idx' = idx + 1
    /\ UNCHANGED <<config, pc, contexts, result, err, ch, last, build, prev, fn, data,
                   pagesize, fontvars>>

RenderCover == RenderPage("cover", CoverOps(config.design.layout))

RenderLetter == RenderPage("letter", LetterOps(config.design.layout))

RenderPrompt == RenderPage("prompt", PromptOps(config.design.layout))

RenderWriting == RenderPage("writing", WritingOps(config.design.layout))

RenderCta == RenderPage("cta", CtaOps(config.design.layout))

RenderToc == RenderPage("toc", TocOps(config.design.layout))

RenderSection == RenderPage("section", SectionOps(config.design.layout))

\* Variant: the for loop passing over a type with no renderer
SkipUnknown ==
    /\ pc = "dispatch"
    /\ idx <= Len(config.pages)
    /\ RenderersGet(config.pages[idx]) = "None"
    /\ idx' = idx + 1
    /\ UNCHANGED <<config, pc, ctx, shown, cur, owners, numbers, calls, contexts,
                   result, err, ch, last, lastCall, build, prev, fn, data,
                   pagesize, fontvars>>

\* Variant: the error raised after saving what was drawn
RaiseUnknownSaved ==
    /\ pc = "dispatch"
    /\ idx <= Len(config.pages)
    /\ RenderersGet(config.pages[idx]) = "None"
    /\ err' = config.pages[idx]
    /\ result' = "bytes"
    /\ pc' = "raised"
    /\ UNCHANGED <<config, idx, ctx, shown, cur, owners, numbers, calls, contexts,
                   ch, last, lastCall, build, prev, fn, data,
                   pagesize, fontvars>>

\* raise ValueError(f"Unknown page type: {page_spec.type!r}")
RaiseUnknown ==
    /\ pc = "dispatch"
    /\ idx <= Len(config.pages)
    /\ RenderersGet(config.pages[idx]) = "None"
    /\ err' = config.pages[idx]
    /\ pc' = "raised"
    /\ UNCHANGED <<config, idx, ctx, shown, cur, owners, numbers, calls, contexts,
                   result, ch, last, lastCall, build, prev, fn, data,
                   pagesize, fontvars>>

\* Variant: build refusing a config with no pages
BuildFinishNonEmpty ==
    /\ pc = "dispatch"
    /\ idx > Len(config.pages)
    /\ IF config.pages = << >>
       THEN /\ pc' = "raised"
            /\ UNCHANGED result
       ELSE /\ result' = "bytes"
            /\ pc' = "done"
    /\ UNCHANGED <<config, idx, ctx, shown, cur, owners, numbers, calls, contexts, err,
                   ch, last, lastCall, build, prev, fn, data, pagesize,
                   fontvars>>

\* c.save(); return buf.getvalue()
BuildFinish ==
    /\ pc = "dispatch"
    /\ idx > Len(config.pages)
    /\ result' = "bytes"
    /\ pc' = "done"
    /\ UNCHANGED <<config, idx, ctx, shown, cur, owners, numbers, calls, contexts, err,
                   ch, last, lastCall, build, prev, fn, data,
                   pagesize, fontvars>>

-----------------------------------------------------------------------------
\* chapter.render

Style == ChapterStyle(ch.variant, ctx)

\* the renderer up to its paragraph loop: first page, chrome, number, title
ChapterBegin(number, title) ==
    /\ pc = "dispatch"
    /\ idx <= Len(config.pages)
    /\ RenderersGet(config.pages[idx]) = "chapter"
    /\ LET variant == Variant(config.design.layout)
           style == ChapterStyle(variant, ctx)
           ops == << style.start >> \o style.chrome
                  \o (IF number THEN << "chapter_number" >> ELSE << >>)
                  \o (IF title # Blank THEN << "title", "accent_line" >>
                      ELSE << >>)
           y0 == IF number THEN style.y_first - style.number_drop
                 ELSE style.y_first
           y1 == IF title # Blank
                 THEN DrawTitleFitted(title, TitleFont(config.design, style),
                                      Hp(20), Hp(14), y0, style.max_w,
                                      style.title_lhf).y - style.title_drop
                 ELSE y0
       IN /\ Draw(ops)
          /\ ch' = [variant |-> variant, y |-> y1, number |-> number,
                    title |-> title, paras |-> << >>, placed |-> << >>]
          /\ lastCall' = [renderer |-> "chapter", pn0 |-> ctx.page_num,
                          shown0 |-> shown, ops |-> ops]
    /\ calls' = Append(calls, "chapter")
    /\ last' = NoLast
    /\ pc' = "chapter"
    /\ UNCHANGED <<config, idx, contexts, result, err, build, prev, fn, data,
                   pagesize, fontvars>>

\* Variant: a blank sentinel that breaks the page when y is below the limit
ChapterBlankChecked ==
    /\ pc = "chapter"
    /\ LET style == Style
           break == NeedsBreak(ch.y, 0, style.bottom_limit)
           ops == IF break THEN BreakOps(style) ELSE << >>
       IN /\ Draw(ops)
          /\ ch' = [ch EXCEPT !.y = (IF break THEN style.y_next ELSE @)
                                      - style.blank_gap,
                              !.paras = Append(@, Blank),
                              !.placed = Append(@, 0)]
          /\ lastCall' = [lastCall EXCEPT !.ops = @ \o ops]
    /\ last' = [kind |-> "blank", text |-> Blank, y0 |-> ch.y, needed |-> 0,
                shown0 |-> shown, lines |-> << >>, y1 |-> ch.y]
    /\ UNCHANGED <<config, pc, idx, calls, contexts, result, err, build, prev,
                   fn, data, pagesize, fontvars>>

\* a loop iteration on the blank sentinel: if para == "": y -= blank_gap
ChapterBlank ==
    /\ pc = "chapter"
    /\ ch' = [ch EXCEPT !.y = @ - Style.blank_gap,
                        !.paras = Append(@, Blank),
                        !.placed = Append(@, 0)]
    /\ last' = [kind |-> "blank", text |-> Blank, y0 |-> ch.y, needed |-> 0,
                shown0 |-> shown, lines |-> << >>, y1 |-> ch.y]
    /\ UNCHANGED <<config, pc, idx, ctx, shown, cur, owners, numbers, calls, contexts,
                   result, err, lastCall, build, prev, fn, data,
                   pagesize, fontvars>>

\* Variant: a loop drawing each paragraph twice
ChapterParaTwice(para) ==
    /\ pc = "chapter"
    /\ para # Blank
    /\ LET style == Style
           font == FontOf(config.design, style.body_role)
           needed == TextHeight(para, font, style.body_size, style.max_w,
                                style.measure_lhf)
           break == NeedsBreak(ch.y, needed, style.bottom_limit)
           ops == (IF break THEN BreakOps(style) ELSE << >>) \o << "text", "text" >>
           y1 == IF break THEN style.y_next ELSE ch.y
           page == IF break THEN shown + 2 ELSE shown + 1
           drawn == DrawTextWrapped(para, font, style.body_size, y1,
                                    style.max_w, style.draw_lhf, page)
       IN /\ Draw(ops)
          /\ ch' = [ch EXCEPT !.y = drawn.y - style.para_gap,
                              !.paras = Append(@, para),
                              !.placed = Append(@, page)]
          /\ last' = [kind |-> "para", text |-> para, y0 |-> ch.y,
                      needed |-> needed, shown0 |-> shown,
                      lines |-> drawn.lines, y1 |-> y1]
          /\ lastCall' = [lastCall EXCEPT !.ops = @ \o ops]
    /\ UNCHANGED <<config, pc, idx, calls, contexts, result, err, build, prev,
                   fn, data, pagesize, fontvars>>


\* a loop iteration on a paragraph: measure, break the page if it does not
\* fit, draw it, leave the gap
ChapterPara(para) ==
    /\ pc = "chapter"
    /\ para # Blank
    /\ LET style == Style
           font == FontOf(config.design, style.body_role)
           needed == TextHeight(para, font, style.body_size, style.max_w,
                                style.measure_lhf)
           break == NeedsBreak(ch.y, needed, style.bottom_limit)
           ops == (IF break THEN BreakOps(style) ELSE << >>) \o << "text" >>
           y1 == IF break THEN style.y_next ELSE ch.y
           page == IF break THEN shown + 2 ELSE shown + 1
           drawn == DrawTextWrapped(para, font, style.body_size, y1,
                                    style.max_w, style.draw_lhf, page)
       IN /\ Draw(ops)
          /\ ch' = [ch EXCEPT !.y = drawn.y - style.para_gap,
                              !.paras = Append(@, para),
                              !.placed = Append(@, page)]
          /\ last' = [kind |-> "para", text |-> para, y0 |-> ch.y,
                      needed |-> needed, shown0 |-> shown,
                      lines |-> drawn.lines, y1 |-> y1]
          /\ lastCall' = [lastCall EXCEPT !.ops = @ \o ops]
    /\ UNCHANGED <<config, pc, idx, calls, contexts, result, err, build, prev,
                   fn, data, pagesize, fontvars>>

\* Variant: a renderer returning without finalizing its last page
ChapterEndOpen ==
    /\ pc = "chapter"
    /\ LET style == Style
           ops == (IF style.footer /\ config.design.author
                   THEN << "footer" >> ELSE << >>)
                  \o << style.number_style >>
       IN /\ Draw(ops)
          /\ lastCall' = [lastCall EXCEPT !.ops = @ \o ops]
    /\ idx' = idx + 1
    /\ pc' = "dispatch"
    /\ UNCHANGED <<config, calls, contexts, result, err, ch, last, build, prev,
                   fn, data, pagesize, fontvars>>

\* after the loop: the footer (warm), the page number, the last page
ChapterEnd ==
    /\ pc = "chapter"
    /\ LET style == Style
           ops == (IF style.footer /\ config.design.author
                   THEN << "footer" >> ELSE << >>)
                  \o << style.number_style, "showPage" >>
       IN /\ Draw(ops)
          /\ lastCall' = [lastCall EXCEPT !.ops = @ \o ops]
    /\ idx' = idx + 1
    /\ pc' = "dispatch"
    /\ UNCHANGED <<config, calls, contexts, result, err, ch, last, build, prev,
                   fn, data, pagesize, fontvars>>

-----------------------------------------------------------------------------
\* A second build of the same config through the same PDFBuilder

Rebuild ==
    /\ pc = "done"
    /\ build = 1
    /\ prev' = [number |-> ch.number, title |-> ch.title, paras |-> ch.paras,
                placed |-> ch.placed, shown |-> shown,
                page_num |-> ctx.page_num]
    /\ build' = 2
    /\ pc' = "start"
    /\ idx' = 0
    /\ owners' = << >>
    /\ numbers' = << >>
    /\ calls' = << >>
    /\ contexts' = 0
    /\ result' = "none"
    /\ err' = ""
    /\ ch' = NoChapter
    /\ last' = NoLast
    /\ lastCall' = NoCall
    /\ UNCHANGED <<config, ctx, shown, cur, fn, data, pagesize, fontvars>>

-----------------------------------------------------------------------------
\* models.py: ProductConfig.from_dict.  A dictionary is a function from its
\* keys; a PageSpec is kept as its type, its data being opaque to build.

EmptyDict == [k \in {} |-> 0]

\* Variant: from_dict leaving a missing title empty
FromDictNoTitle(d) ==
    LET design_data == Get(d, "design", EmptyDict)
        links_in == Get(d, "links", EmptyDict)
        pages_in == Get(d, "pages", << >>)
        author == Get(d, "author", "")
    IN [title    |-> Get(d, "title", ""),
        subtitle |-> Get(d, "subtitle", ""),
        author   |-> author,
        filename |-> Get(d, "filename", "output.pdf"),
        design   |-> [colors    |-> Get(design_data, "colors", EmptyDict),
                      fonts     |-> Get(design_data, "fonts", EmptyDict),
                      page_size |-> Get(design_data, "page_size", "letter"),
                      margins   |-> Get(design_data, "margins", DefaultMargins),
                      layout    |-> Get(design_data, "layout", "editorial"),
                      author    |-> author # ""],
        links    |-> [name \in DOMAIN links_in |->
                         [url     |-> links_in[name].url,
                          display |-> links_in[name].display]],
        pages    |-> [i \in 1..Len(pages_in) |-> pages_in[i].type]]

\* ProductConfig.from_dict(data); design.author is config.author being set,
\* which the warm chapter footer reads
FromDict(d) ==
    LET design_data == Get(d, "design", EmptyDict)
        links_in == Get(d, "links", EmptyDict)
        pages_in == Get(d, "pages", << >>)
        author == Get(d, "author", "")
    IN [title    |-> Get(d, "title", "Untitled"),
        subtitle |-> Get(d, "subtitle", ""),
        author   |-> author,
        filename |-> Get(d, "filename", "output.pdf"),
        design   |-> [colors    |-> Get(design_data, "colors", EmptyDict),
                      fonts     |-> Get(design_data, "fonts", EmptyDict),
                      page_size |-> Get(design_data, "page_size", "letter"),
                      margins   |-> Get(design_data, "margins", DefaultMargins),
                      layout    |-> Get(design_data, "layout", "editorial"),
                      author    |-> author # ""],
        links    |-> [name \in DOMAIN links_in |->
                         [url     |-> links_in[name].url,
                          display |-> links_in[name].display]],
        pages    |-> [i \in 1..Len(pages_in) |-> pages_in[i].type]]

\* link_data["url"], link_data["display"] or page_data["type"] on a
\* dictionary without the key
RaisesKeyError(d) ==
    LET links_in == Get(d, "links", EmptyDict)
        pages_in == Get(d, "pages", << >>)
    IN \/ \E name \in DOMAIN links_in :
             ~({"url", "display"} \subseteq DOMAIN links_in[name])
       \/ \E i \in DOMAIN pages_in : "type" \notin DOMAIN pages_in[i]

NoConfig ==
    [design |-> [layout |-> "", page_size |-> "", fonts |-> EmptyDict,
                 margins |-> EmptyDict, author |-> FALSE],
     pages |-> << >>]

\* config = ProductConfig.from_dict(data), as the upload route and the
\* command line do before build(config)
FromDictCall ==
    /\ pc = "from_dict"
    /\ IF RaisesKeyError(data)
       THEN /\ pc' = "keyerror"
            /\ UNCHANGED config
       ELSE /\ config' = FromDict(data)
            /\ pc' = "start"
    /\ UNCHANGED <<idx, ctx, shown, cur, owners, numbers, calls, contexts, result, err,
                   ch, last, lastCall, build, prev, fn, data, pagesize,
                   fontvars>>

-----------------------------------------------------------------------------
\* Builds in threads.  A thread runs build(config): register_bundled_fonts,
\* one step per bytecode group that touches shared state, then the first
\* text draw of its first page.  The mapping register_bundled_fonts returns
\* is dropped by build (builder.py line 39) and is not kept here.

ThreadStart == [pc |-> "check", i |-> 1, used |-> ""]

\* the for loop of register_bundled_fonts moving to its next font, or build
\* going on to render
Advance(t) ==
    IF t.i < Len(BUNDLED_FONTS) THEN [t EXCEPT !.pc = "check", !.i = @ + 1]
    ELSE [t EXCEPT !.pc = "draw"]

\* if name in _registered: continue
ThreadCheck(n) ==
    /\ th[n].pc = "check"
    /\ th' = [th EXCEPT ![n] =
                IF BUNDLED_FONTS[th[n].i] \in registered THEN Advance(@)
                ELSE [@ EXCEPT !.pc = "register"]]
    /\ UNCHANGED <<config, pc, idx, ctx, shown, cur, owners, numbers, calls, contexts,
                   result, err, ch, last, lastCall, build, prev, fn, data,
                   pagesize, registered, pdfmetrics, files>>

\* os.path.isfile(path) and pdfmetrics.registerFont(TTFont(name, path)); a
\* missing file, or one TTFont cannot parse, is warned about and passed over
ThreadRegister(n) ==
    /\ th[n].pc = "register"
    /\ LET name == BUNDLED_FONTS[th[n].i]
       IN IF files[name] = "ok"
          THEN /\ pdfmetrics' = [pdfmetrics EXCEPT ![name] = @ + 1]
               /\ th' = [th EXCEPT ![n].pc = "add"]
          ELSE /\ th' = [th EXCEPT ![n] = Advance(@)]
               /\ UNCHANGED pdfmetrics
    /\ UNCHANGED <<config, pc, idx, ctx, shown, cur, owners, numbers, calls, contexts,
                   result, err, ch, last, lastCall, build, prev, fn, data,
                   pagesize, registered, files>>

\* _registered.add(name)
ThreadAdd(n) ==
    /\ th[n].pc = "add"
    /\ registered' = registered \cup {BUNDLED_FONTS[th[n].i]}
    /\ th' = [th EXCEPT ![n] = Advance(@)]
    /\ UNCHANGED <<config, pc, idx, ctx, shown, cur, owners, numbers, calls, contexts,
                   result, err, ch, last, lastCall, build, prev, fn, data,
                   pagesize, pdfmetrics, files>>

\* the first text draw of the build: setFont(ctx.font(role), size); the
\* canvas raises on a font name the font service does not know
ThreadDraw(n, role) ==
    /\ th[n].pc = "draw"
    /\ LET font == FontOf(config.design, role)
       IN th' = [th EXCEPT ![n] =
                    [@ EXCEPT !.used = font,
                              !.pc = IF font \in Available(pdfmetrics)
                                     THEN "done" ELSE "fonterror"]]
    /\ UNCHANGED <<config, pc, idx, ctx, shown, cur, owners, numbers, calls, contexts,
                   result, err, ch, last, lastCall, build, prev, fn, data,
                   pagesize, registered, pdfmetrics, files>>

-----------------------------------------------------------------------------
\* Specifications

InitWith(pages) ==
    /\ config \in [design : Designs, pages : pages]
    /\ pc = "start"
    /\ idx = 0
    /\ ctx = NoContext
    /\ shown = 0
    /\ cur = << >>
    /\ owners = << >>
    /\ numbers = << >>
    /\ calls = << >>
    /\ contexts = 0
    /\ result = "none"
    /\ err = ""
    /\ ch = NoChapter
    /\ last = NoLast
    /\ lastCall = NoCall
    /\ build = 1
    /\ prev = NoPrev
    /\ fn = NoFn
    /\ data = NoData
    /\ pagesize = NoPageSize
    /\ registered = {}
    /\ pdfmetrics = NoFonts
    /\ files = AllFiles
    /\ th = << >>

\* One build of any page list of up to MaxPages pages; a chapter has up to
\* MaxBuildParas paragraphs.
Init == InitWith(SeqsUpTo(PageTypes, MaxPages))

Next ==
    \/ BuildStart
    \/ RenderCover
    \/ RenderLetter
    \/ RenderPrompt
    \/ RenderWriting
    \/ RenderCta
    \/ RenderToc
    \/ RenderSection
    \/ \E head \in ChapterHeads : ChapterBegin(head.number, head.title)
    \/ Len(ch.paras) < MaxBuildParas /\ ChapterBlank
    \/ \E para \in BodyTexts :
          Len(ch.paras) < MaxBuildParas /\ ChapterPara(para)
    \/ ChapterEnd
    \/ RaiseUnknown
    \/ BuildFinish

Spec == Init /\ [][Next]_vars

\* Two builds of a chapter of up to MaxParas paragraphs, alone or after a
\* cover; the second build reads the data the first one read.
InitChapter == InitWith({<< "chapter" >>, << "cover", "chapter" >>})

NextChapter ==
    \/ BuildStart
    \/ RenderCover
    \/ \E head \in ChapterHeads :
          /\ build = 2 => head.number = prev.number /\ head.title = prev.title
          /\ ChapterBegin(head.number, head.title)
    \/ /\ IF build = 1 THEN Len(ch.paras) < MaxParas
          ELSE /\ Len(ch.paras) < Len(prev.paras)
               /\ prev.paras[Len(ch.paras) + 1] = Blank
       /\ ChapterBlank
    \/ \E para \in BodyTexts :
          /\ IF build = 1 THEN Len(ch.paras) < MaxParas
             ELSE /\ Len(ch.paras) < Len(prev.paras)
                  /\ prev.paras[Len(ch.paras) + 1] = para
          /\ ChapterPara(para)
    \/ (build = 2 => Len(ch.paras) = Len(prev.paras)) /\ ChapterEnd
    \/ BuildFinish
    \/ Rebuild

SpecChapter == InitChapter /\ [][NextChapter]_vars

\* One build of a chapter of up to MaxParas short, page-filling or blank
\* paragraphs, the for loops of build and of the renderer running on while
\* they have an iteration left.
InitChapterOnce == InitWith({<< "chapter" >>})

NextChapterOnce ==
    \/ BuildStart
    \/ \E head \in ChapterHeads : ChapterBegin(head.number, head.title)
    \/ Len(ch.paras) < MaxParas /\ ChapterBlank
    \/ \E para \in {LongWords(1), LongWords(PageLines)} :
          Len(ch.paras) < MaxParas /\ ChapterPara(para)
    \/ ChapterEnd
    \/ BuildFinish

SpecChapterFair ==
    InitChapterOnce /\ [][NextChapterOnce]_vars /\ WF_vars(NextChapterOnce)

\* draw_title_fitted on its own, for any text, bounds and width
TitleTexts == {Words(2), Words(4), LongWords(4), [i \in 1..8 |-> 7000]}

TitleWidths == {Pt(372), Pt(432)}

InitTitle ==
    /\ config \in [design : Designs, pages : {<< >>}]
    /\ pc = "fn"
    /\ idx = 0
    /\ ctx = NoContext
    /\ shown = 0
    /\ cur = << >>
    /\ owners = << >>
    /\ numbers = << >>
    /\ calls = << >>
    /\ contexts = 0
    /\ result = "none"
    /\ err = ""
    /\ ch = NoChapter
    /\ last = NoLast
    /\ lastCall = NoCall
    /\ build = 1
    /\ prev = NoPrev
    /\ data = NoData
    /\ pagesize = NoPageSize
    /\ registered = {}
    /\ pdfmetrics = NoFonts
    /\ files = AllFiles
    /\ th = << >>
    /\ \E text \in TitleTexts, min_size \in {Hp(14), Hp(14) + 1},
          max_size \in Hp(14)..MaxTitleSize, max_width \in TitleWidths :
          /\ min_size <= max_size
          /\ fn = [text |-> text, max_size |-> max_size, min_size |-> min_size,
                   max_width |-> max_width, size |-> 0, lines |-> 0]

FitTitle ==
    /\ pc = "fn"
    /\ LET drawn == DrawTitleFitted(fn.text, FontOf(config.design, "heading"),
                                    fn.max_size, fn.min_size, 0, fn.max_width,
                                    130)
       IN fn' = [fn EXCEPT !.size = drawn.size, !.lines = drawn.lines]
    /\ pc' = "fitted"
    /\ UNCHANGED <<config, idx, ctx, shown, cur, owners, numbers, calls, contexts,
                   result, err, ch, last, lastCall, build, prev, data,
                   pagesize, fontvars>>

NextTitle == FitTitle

SpecTitle == InitTitle /\ [][NextTitle]_vars

\* NumThreads builds of one config running in threads of one process, the
\* font files present, missing or corrupt.
BundledDesign ==
    [layout |-> "editorial", page_size |-> "letter", author |-> FALSE,
     margins |-> DefaultMargins,
     fonts |-> [heading |-> "Italiana", body |-> "CrimsonPro",
                body_italic |-> "CrimsonProItalic", mono |-> "DMMono"]]

FileCases ==
    {AllFiles,
     [AllFiles EXCEPT !["Italiana"] = "missing"],
     [AllFiles EXCEPT !["CrimsonPro"] = "corrupt"]}

InitFonts ==
    /\ config \in [design : {BundledDesign}, pages : {<< "letter" >>}]
    /\ pc = "threads"
    /\ idx = 0
    /\ ctx = NoContext
    /\ shown = 0
    /\ cur = << >>
    /\ owners = << >>
    /\ numbers = << >>
    /\ calls = << >>
    /\ contexts = 0
    /\ result = "none"
    /\ err = ""
    /\ ch = NoChapter
    /\ last = NoLast
    /\ lastCall = NoCall
    /\ build = 1
    /\ prev = NoPrev
    /\ fn = NoFn
    /\ data = NoData
    /\ pagesize = NoPageSize
    /\ registered = {}
    /\ pdfmetrics = NoFonts
    /\ files \in FileCases
    /\ th = [n \in 1..NumThreads |-> ThreadStart]

NextFonts ==
    \E n \in 1..NumThreads :
        \/ ThreadCheck(n)
        \/ ThreadRegister(n)
        \/ ThreadAdd(n)
        \/ \E role \in {"heading", "body"} : ThreadDraw(n, role)

SpecFonts == InitFonts /\ [][NextFonts]_vars

\* register_bundled_fonts called up to MaxCalls times in a row by one thread,
\* each call with the font directory its builder was given: every font
\* present, none present, or some missing or unreadable.
FontDirs ==
    {AllFiles,
     [name \in Range(BUNDLED_FONTS) |-> "missing"],
     [AllFiles EXCEPT !["Italiana"] = "missing"],
     [AllFiles EXCEPT !["CrimsonPro"] = "corrupt"],
     [AllFiles EXCEPT !["CrimsonProItalic"] = "missing", !["DMMono"] = "corrupt"],
     [AllFiles EXCEPT !["Italiana"] = "corrupt", !["CrimsonPro"] = "missing",
                      !["CrimsonProItalic"] = "corrupt"]}

NoReturn ==
    [calls |-> 0, resolved |-> << >>, examined |-> {}, warned |-> {}]

InitRegister ==
    /\ config \in [design : {BundledDesign}, pages : {<< >>}]
    /\ pc = "register"
    /\ idx = 0
    /\ ctx = NoContext
    /\ shown = 0
    /\ cur = << >>
    /\ owners = << >>
    /\ numbers = << >>
    /\ calls = << >>
    /\ contexts = 0
    /\ result = "none"
    /\ err = ""
    /\ ch = NoChapter
    /\ last = NoLast
    /\ lastCall = NoCall
    /\ build = 1
    /\ prev = NoPrev
    /\ fn = NoReturn
    /\ data = NoData
    /\ pagesize = NoPageSize
    /\ registered = {}
    /\ pdfmetrics = NoFonts
    /\ files \in FontDirs
    /\ th = [n \in 1..NumThreads |-> ThreadStart]

\* one call of register_bundled_fonts on the directory in files; the next
\* call may come with another directory
RegisterCall ==
    /\ pc = "register"
    /\ fn.calls < MaxCalls
    /\ LET r == RegisterBundledFonts
       IN /\ registered' = r.registered
          /\ pdfmetrics' = r.pdfmetrics
          /\ fn' = [calls |-> fn.calls + 1, resolved |-> r.resolved,
                    examined |-> r.examined, warned |-> r.warned]
    /\ files' \in FontDirs
    /\ UNCHANGED <<config, pc, idx, ctx, shown, cur, owners, numbers, calls,
                   contexts, result, err, ch, last, lastCall, build, prev,
                   data, pagesize, th>>

NextRegister == RegisterCall

SpecRegister == InitRegister /\ [][NextRegister]_vars

\* from_dict on a dictionary with or without its optional fields, then a
\* build of the config it returns.
Opt(S) == {<< >>} \cup {<< v >> : v \in S}

\* the dictionary with key set to the option's value, if it has one
Put(dict, key, opt) ==
    IF opt = << >> THEN dict
    ELSE [k \in DOMAIN dict \cup {key} |->
             IF k = key THEN opt[1] ELSE dict[k]]

MarginInputs ==
    {DefaultMargins,
     [left |-> Pt(100)],
     [DefaultMargins EXCEPT !.left = Pt(400), !.right = Pt(400)],
     [DefaultMargins EXCEPT !.top = 0 - Pt(10)],
     [DefaultMargins EXCEPT !.left = Pt(306)]}

DesignInputs ==
    {Put(Put(EmptyDict, "page_size", page_size), "margins", margins) :
        page_size \in Opt({"letter", "a4", "A4", "legal"}),
        margins \in Opt(MarginInputs)}

PagesInputs ==
    {<< >>,
     << [type |-> "cover"] >>,
     << [type |-> "letter", data |-> [title |-> "Dear"]], [type |-> "cover"] >>,
     << [type |-> "toc"], [type |-> "toc"] >>,
     << [type |-> "toc"], [data |-> EmptyDict] >>}

LinksInputs ==
    {EmptyDict,
     [shop |-> [url |-> "https://shop", display |-> "shop"]],
     [shop |-> [url |-> "https://shop"]]}

DataInputs ==
    {Put(Put(Put(Put(EmptyDict, "title", title), "design", design),
             "pages", pages), "links", links) :
        title \in Opt({"Workbook"}), design \in Opt(DesignInputs),
        pages \in Opt(PagesInputs), links \in Opt(LinksInputs)}

InitConfig ==
    /\ data \in DataInputs
    /\ config = NoConfig
    /\ pc = "from_dict"
    /\ idx = 0
    /\ ctx = NoContext
    /\ shown = 0
    /\ cur = << >>
    /\ owners = << >>
    /\ numbers = << >>
    /\ calls = << >>
    /\ contexts = 0
    /\ result = "none"
    /\ err = ""
    /\ ch = NoChapter
    /\ last = NoLast
    /\ lastCall = NoCall
    /\ build = 1
    /\ prev = NoPrev
    /\ fn = NoFn
    /\ pagesize = NoPageSize
    /\ registered = {}
    /\ pdfmetrics = NoFonts
    /\ files = AllFiles
    /\ th = << >>

NextConfig ==
    \/ FromDictCall
    \/ BuildStart
    \/ RenderCover
    \/ RenderLetter
    \/ RenderToc
    \/ BuildFinish

SpecConfig == InitConfig /\ [][NextConfig]_vars

\* _text_height on its own: one text, font, size and factor measured at two
\* widths.
HeightTexts ==
    {Words(4), LongWords(3), << 7000, 13000, 0, 7000, 20000, 7000 >>,
     Words(1), Whitespace}

HeightWidths ==
    {0 - Pt(10), 0, Pt(100), Pt(143), Pt(200), Pt(287), Pt(372), Pt(432)}

InitHeight ==
    /\ config \in [design : Designs, pages : {<< >>}]
    /\ pc = "measure"
    /\ idx = 0
    /\ ctx = NoContext
    /\ shown = 0
    /\ cur = << >>
    /\ owners = << >>
    /\ numbers = << >>
    /\ calls = << >>
    /\ contexts = 0
    /\ result = "none"
    /\ err = ""
    /\ ch = NoChapter
    /\ last = NoLast
    /\ lastCall = NoCall
    /\ build = 1
    /\ prev = NoPrev
    /\ data = NoData
    /\ pagesize = NoPageSize
    /\ registered = {}
    /\ pdfmetrics = NoFonts
    /\ files = AllFiles
    /\ th = << >>
    /\ \E text \in HeightTexts, w1 \in HeightWidths, w2 \in HeightWidths,
          size \in {Hp(11), Hp(14)} :
          /\ w1 < w2
          /\ fn = [text |-> text, size |-> size, w1 |-> w1, w2 |-> w2,
                   factor |-> 0, h1 |-> 0, h2 |-> 0]

\* the two measurements, with the body font and line-height factor of the
\* design's chapter layout
MeasureHeights ==
    /\ pc = "measure"
    /\ LET style == ChapterStyle(Variant(config.design.layout), NoContext)
           font == FontOf(config.design, style.body_role)
       IN fn' = [fn EXCEPT
                    !.factor = style.measure_lhf,
                    !.h1 = TextHeight(fn.text, font, fn.size, fn.w1,
                                      style.measure_lhf),
                    !.h2 = TextHeight(fn.text, font, fn.size, fn.w2,
                                      style.measure_lhf)]
    /\ pc' = "measured"
    /\ UNCHANGED <<config, idx, ctx, shown, cur, owners, numbers, calls, contexts,
                   result, err, ch, last, lastCall, build, prev, data,
                   pagesize, fontvars>>

NextHeight == MeasureHeights

SpecHeight == InitHeight /\ [][NextHeight]_vars

-----------------------------------------------------------------------------
\* Properties

Recognized == {"editorial", "clean", "warm"}

SinglePage == KnownTypes \ {"chapter"}

\* the chapter renderer has returned and nothing has been dispatched since
ChapterDone == lastCall.renderer = "chapter" /\ pc \in {"dispatch", "done"}

\* pages the last renderer invocation has finalized
PagesOfCall == shown - lastCall.shown0

\* bottom margin + 30 pt in the editorial and clean layouts, + 40 pt in warm
BottomLimitOf(variant) ==
    IF variant = "warm" THEN ctx.margin_bottom + 4000
    ELSE ctx.margin_bottom + 3000

\* the chapter loop has just handled a non-blank paragraph
ParaDone == pc = "chapter" /\ last.kind = "para"

\* C1: all wrapped lines of a paragraph are drawn on one page, the page that
\* is still open when the paragraph is done: no page is finalized between
\* its first and its last line.
C1_ParagraphAtomic ==
    ParaDone =>
        \A i \in DOMAIN last.lines :
            /\ last.lines[i].page = last.lines[1].page
            /\ last.lines[i].page = shown + 1

\* a paragraph of several lines drawn right after a page break
C1_Witness ==
    /\ ParaDone
    /\ Len(last.lines) > 1
    /\ shown = last.shown0 + 1

\* C2: a page break is taken immediately before a paragraph if and only if
\* y - needed_height < bottom_limit; otherwise, equality included, the
\* paragraph starts at y on the page that was open.
C2_BreakRule ==
    ParaDone =>
        LET fits == last.y0 - last.needed >= BottomLimitOf(ch.variant)
        IN /\ fits <=> shown = last.shown0
           /\ ~fits <=> shown = last.shown0 + 1
           /\ fits => last.y1 = last.y0
           /\ \A i \in DOMAIN last.lines :
                 last.lines[i].page = last.shown0 + (IF fits THEN 1 ELSE 2)

\* a paragraph that ends exactly on the bottom limit, drawn without a break
C2_Witness ==
    /\ ParaDone
    /\ last.needed > 0
    /\ last.y0 - last.needed = BottomLimitOf(ch.variant)
    /\ shown = last.shown0

\* the chapter of C3: no number, no title, 3 paragraphs, each as tall as the
\* room of a fresh page (content start to bottom limit) less one line
C3_Scenario ==
    /\ ChapterDone
    /\ ~ch.number
    /\ ch.title = Blank
    /\ Len(ch.paras) = 3
    /\ \A i \in 1..3 :
          /\ ch.paras[i] # Blank
          /\ Len(SplitWords(ch.paras[i])) > 0
          /\ TextHeight(ch.paras[i], FontOf(config.design, Style.body_role),
                        Style.body_size, Style.max_w, Style.measure_lhf)
                = Style.y_first - Style.bottom_limit
                  - LineHeight(Style.body_size, Style.measure_lhf)

\* C3 as stated: the chapter yields exactly 2 pages and paragraph 3 is the
\* first paragraph on the second page.
C3_TwoPages ==
    C3_Scenario =>
        /\ PagesOfCall = 2
        /\ ch.placed[2] = lastCall.shown0 + 1
        /\ ch.placed[3] = lastCall.shown0 + 2

\* C3, amended: paragraph 1 stays on the first page and paragraph 2 starts
\* the second; in the editorial and clean layouts paragraph 3 starts a third
\* page and the chapter yields exactly 3 pages.
C3_OnePerPage ==
    C3_Scenario =>
        /\ ch.placed[1] = lastCall.shown0 + 1
        /\ ch.placed[2] = lastCall.shown0 + 2
        /\ ch.variant # "warm" =>
              /\ ch.placed[3] = lastCall.shown0 + 3
              /\ PagesOfCall = 3

\* the scenario in the editorial layout
C3_Witness == C3_Scenario /\ ch.variant = "editorial"

\* the page types handed to the renderers so far
Dispatched(n) == [i \in 1..n |-> config.pages[i]]

AllKnown == \A i \in DOMAIN config.pages : config.pages[i] \in KnownTypes

\* C4: build either renders every page and returns the bytes, or raises and
\* returns nothing; it raises, naming the type, whenever a page type has no
\* renderer, and never passes over one.
C4_AllOrNothing ==
    /\ result = "bytes" =>
          /\ pc = "done"
          /\ AllKnown
          /\ calls = config.pages
          /\ cur = << >>
    /\ pc = "raised" =>
          /\ result = "none"
          /\ err = config.pages[idx]
          /\ err \notin KnownTypes
    /\ pc = "done" => AllKnown /\ result = "bytes"
    /\ pc = "dispatch" /\ ~AllKnown =>
          \E i \in idx..Len(config.pages) : config.pages[i] \notin KnownTypes

\* a build that raised on its second page, the first one rendered
C4_Witness ==
    /\ pc = "raised"
    /\ err = "nonexistent"
    /\ Len(calls) = 1

\* C5 as stated: when build fails on an unknown type no renderer has run,
\* the page counter is 0 and no page is on the canvas.
C5_NothingRendered ==
    pc = "raised" =>
        /\ calls = << >>
        /\ ctx.page_num = 0
        /\ shown = 0

\* C5, amended: when build fails on an unknown type no bytes are returned;
\* the renderers of the pages before the first unknown one have run, in
\* order, and only if the unknown type comes first is the page counter 0.
C5_NoBytesReturned ==
    pc = "raised" =>
        /\ result = "none"
        /\ \A i \in 1..(idx - 1) : config.pages[i] \in KnownTypes
        /\ calls = Dispatched(idx - 1)
        /\ Len(owners) = shown
        /\ shown >= idx - 1
        /\ ctx.page_num >= idx - 1
        /\ idx = 1 => ctx.page_num = 0 /\ shown = 0

\* a build that fails after a valid page was rendered and counted
C5_Witness ==
    /\ pc = "raised"
    /\ idx = 2
    /\ ctx.page_num >= 1
    /\ shown >= 1

\* C6: the renderers run once each in the order of config.pages, on the one
\* RenderContext of the build, and the pages of a PageSpec are all finalized
\* before the next PageSpec starts a page.
C6_DispatchOrder ==
    /\ pc # "start" => contexts = 1
    /\ pc \in {"dispatch", "done", "raised"} =>
          /\ calls = Dispatched(idx - 1)
          /\ cur = << >>
    /\ pc = "chapter" => calls = Dispatched(idx)
    /\ \A i \in DOMAIN owners :
          /\ i > 1 => owners[i - 1] <= owners[i]
          /\ config.pages[owners[i]] = calls[owners[i]]
    /\ \A i \in 1..(idx - 1) :
          i <= Len(config.pages) => \E j \in DOMAIN owners : owners[j] = i

\* a finished build of two different page types, the second a toc
C6_Witness ==
    /\ pc = "done"
    /\ calls = << "letter", "toc" >>
    /\ owners = << 1, 2 >>

\* the sizes max_size, max_size - 1 pt, ... that lie in [min_size, max_size]
\* and wrap the text to at most 3 lines
FittingSizes ==
    {s \in fn.min_size..fn.max_size :
        /\ (fn.max_size - s) % Hp(1) = 0
        /\ Len(simpleSplit(fn.text, FontOf(config.design, "heading"), s,
                          fn.max_width)) <= 3}

\* C7: draw_title_fitted chooses the largest size of the sequence max_size,
\* max_size - 1, ... within [min_size, max_size] at which the text wraps to
\* at most 3 lines, or min_size if there is none, and draws every line of
\* the text at the size chosen.
C7_AutoFit ==
    pc = "fitted" =>
        /\ FittingSizes # {} =>
              /\ fn.size \in FittingSizes
              /\ \A s \in FittingSizes : s <= fn.size
        /\ FittingSizes = {} => fn.size = fn.min_size
        /\ fn.lines =
              Len(simpleSplit(fn.text, FontOf(config.design, "heading"),
                              fn.size, fn.max_width))

\* a title shrunk below max_size that fits in 3 lines above min_size
C7_Witness ==
    /\ pc = "fitted"
    /\ fn.min_size < fn.size
    /\ fn.size < fn.max_size
    /\ fn.lines = 3

\* a title that overflows 3 lines at min_size and is drawn all the same
C7_Overflow ==
    /\ pc = "fitted"
    /\ fn.size = fn.min_size
    /\ fn.lines > 3

\* C8: a second build of the same chapter data with the same design through
\* the same builder produces the page count and the assignment of paragraphs
\* to pages of the first build.
C8_Deterministic ==
    build = 2 /\ pc = "done" =>
        /\ ch.paras = prev.paras
        /\ shown = prev.shown
        /\ ch.placed = prev.placed
        /\ ctx.page_num = prev.page_num

\* a second build of a chapter that spreads over 3 pages
C8_Witness ==
    /\ build = 2
    /\ pc = "done"
    /\ PagesOfCall = 3
    /\ Len(ch.paras) = 3

\* the drawing operations of a single-page renderer under a layout
OpsOf(renderer, layout) ==
    IF renderer = "cover" THEN CoverOps(layout)
    ELSE IF renderer = "letter" THEN LetterOps(layout)
    ELSE IF renderer = "prompt" THEN PromptOps(layout)
    ELSE IF renderer = "writing" THEN WritingOps(layout)
    ELSE IF renderer = "cta" THEN CtaOps(layout)
    ELSE IF renderer = "toc" THEN TocOps(layout)
    ELSE SectionOps(layout)

\* C9: under a layout outside editorial, clean and warm every renderer
\* performs the drawing operations it performs under the layout clean.
C9_DefaultsToClean ==
    config.design.layout \notin Recognized =>
        /\ lastCall.renderer \in SinglePage =>
              lastCall.ops = OpsOf(lastCall.renderer, "clean")
        /\ lastCall.renderer = "chapter" => ch.variant = "clean"

\* C10: an invocation of the cover, letter, prompt, writing, cta, toc or
\* section renderer advances the page counter by one and finalizes one page,
\* leaving no page open.
C10_OnePage ==
    lastCall.renderer \in SinglePage =>
        /\ ctx.page_num = lastCall.pn0 + 1
        /\ shown = lastCall.shown0 + 1
        /\ cur = << >>
        /\ Len(SelectSeq(lastCall.ops, LAMBDA op : op = "showPage")) = 1
        /\ lastCall.ops[Len(lastCall.ops)] = "showPage"

\* a clean cover rendered as the second page of a build
C10_Witness ==
    /\ lastCall.renderer = "cover"
    /\ Variant(config.design.layout) = "clean"
    /\ lastCall.pn0 = 1
    /\ ctx.page_num = 2

\* C11: when builds register the bundled fonts concurrently, each bundled
\* font is registered with the font service at most once.
C11_RegisteredOnce ==
    pc = "threads" =>
        \A name \in Range(BUNDLED_FONTS) : pdfmetrics[name] <= 1

C13_EmptyPages ==
    config.pages = << >> /\ pc \in {"dispatch", "raised", "done"} =>
        /\ calls = << >>
        /\ ctx.page_num = 0
        /\ shown = 0
        /\ cur = << >>
        /\ owners = << >>
    /\ numbers = << >>
        /\ pc # "raised"
        /\ result = (IF pc = "done" THEN "bytes" ELSE "none")

\* a finished build of an empty page list
C13_Witness ==
    /\ config.pages = << >>
    /\ pc = "done"
    /\ result = "bytes"
    /\ ctx.page_num = 0

\* a RenderContext has been constructed for the config
HasContext == pc \in {"dispatch", "chapter", "raised", "done"}

\* C14: for every design from_dict accepts and a RenderContext is built on,
\* each margin is non-negative and below half the page dimension it runs
\* along, and the text-area width is positive.
C14_MarginInvariant ==
    HasContext =>
        /\ ctx.margin_left >= 0 /\ 2 * ctx.margin_left < ctx.W
        /\ ctx.margin_right >= 0 /\ 2 * ctx.margin_right < ctx.W
        /\ ctx.margin_top >= 0 /\ 2 * ctx.margin_top < ctx.H
        /\ ctx.margin_bottom >= 0 /\ 2 * ctx.margin_bottom < ctx.H
        /\ ctx.text_area_w > 0

\* C15: the page size build creates the canvas with is the size the
\* RenderContext holds as W and H: A4 for "a4", letter for "letter" and for
\* every other identifier.
C15_PageSize ==
    HasContext =>
        /\ pagesize = [W |-> ctx.W, H |-> ctx.H]
        /\ pagesize = (IF config.design.page_size = "a4"
                       THEN [W |-> 59528, H |-> 84189]
                       ELSE [W |-> 61200, H |-> 79200])

\* a build under a page size that is neither "letter" nor "a4"
C15_Witness ==
    /\ pc = "done"
    /\ config.design.page_size = "legal"
    /\ ctx.W = 61200
    /\ ctx.H = 79200

\* C17: from_dict does not fail on a dictionary lacking optional top-level
\* fields and fills the defaults: title "Untitled", no pages, page size
\* "letter", no links; the pages it returns are the input's, in order.
C17_Defaults ==
    /\ pc = "keyerror" => {"pages", "links"} \cap DOMAIN data # {}
    /\ pc \notin {"from_dict", "keyerror"} =>
          /\ config.title = (IF "title" \in DOMAIN data THEN data.title
                             ELSE "Untitled")
          /\ "pages" \notin DOMAIN data => config.pages = << >>
          /\ "links" \notin DOMAIN data => config.links = EmptyDict
          /\ ("design" \notin DOMAIN data
                \/ "page_size" \notin DOMAIN data.design) =>
                config.design.page_size = "letter"
          /\ "pages" \in DOMAIN data =>
                /\ Len(config.pages) = Len(data.pages)
                /\ \A i \in DOMAIN data.pages :
                      config.pages[i] = data.pages[i].type

\* from_dict({}) has returned its defaults and the config has been built
C17_Witness ==
    /\ data = EmptyDict
    /\ pc = "done"
    /\ config.title = "Untitled"
    /\ config.design.page_size = "letter"

\* from_dict has returned two pages in the order of the input
C17_Ordered ==
    /\ pc = "start"
    /\ "pages" \in DOMAIN data
    /\ config.pages = << "letter", "cover" >>

\* the measured text wraps to several lines at the wider width too
RequiresWrapping ==
    /\ fn.w1 > 0
    /\ fn.h2 > LineHeight(fn.size, fn.factor)

\* C16 as stated: for text that requires wrapping, measured at W1 < W2 with
\* font and size fixed, the height at W1 is strictly greater than at W2.
C16_StrictlyIncreasing ==
    pc = "measured" /\ RequiresWrapping => fn.h1 > fn.h2

\* C16, amended: for positive widths W1 < W2, font and size fixed, the
\* height measured at W1 is never smaller than the height measured at W2.
C16_NeverDecreasing ==
    pc = "measured" /\ fn.w1 > 0 => fn.h1 >= fn.h2

\* a wrapping text measured taller at the narrower of two widths
C16_Witness ==
    /\ pc = "measured"
    /\ RequiresWrapping
    /\ fn.h1 > fn.h2

\* 14 pt in the editorial layout, 12 pt in clean and warm
BlankGapOf(variant) == IF variant = "editorial" THEN 1400 ELSE 1200

\* C18: an empty-string paragraph only lowers y by the layout's blank gap:
\* nothing is drawn, no page is finalized or started and the page counter
\* stays, whatever y is.
C18_BlankOnlyLowersY ==
    [][(pc = "chapter" /\ pc' = "chapter" /\ last'.kind = "blank") =>
          /\ ch'.paras = Append(ch.paras, Blank)
          /\ ch'.y = ch.y - BlankGapOf(ch.variant)
          /\ shown' = shown
          /\ cur' = cur
          /\ ctx' = ctx
          /\ owners' = owners
          /\ lastCall' = lastCall]_vars

\* a blank sentinel handled with y already below the bottom limit
C18_Witness ==
    /\ pc = "chapter"
    /\ last.kind = "blank"
    /\ last.y0 < BottomLimitOf(ch.variant)
    /\ shown = last.shown0
    /\ ch.y = last.y0 - BlankGapOf(ch.variant)

\* the number of ops in a sequence of canvas operations that satisfy a test
StartsIn(ops) ==
    Len(SelectSeq(ops, LAMBDA op :
            op \in {"start_page:background", "start_page:primary"}))

ShowsIn(ops) == Len(SelectSeq(ops, LAMBDA op : op = "showPage"))

\* C19: the chapter renderer returns for every paragraph list, and when it
\* has returned every page it started is finalized exactly once, the last
\* one after the last paragraph, and no page is open.
C19_Terminates ==
    /\ [](ChapterDone =>
             /\ cur = << >>
             /\ lastCall.ops[Len(lastCall.ops)] = "showPage"
             /\ ShowsIn(lastCall.ops) = StartsIn(lastCall.ops)
             /\ ShowsIn(lastCall.ops) = PagesOfCall
             /\ ShowsIn(lastCall.ops)
                   = 1 + Cardinality({i \in DOMAIN ch.placed : ch.placed[i] # 0
                                         /\ \A j \in 1..(i - 1) :
                                               ch.placed[j] < ch.placed[i]})
                       - (IF \E i \in DOMAIN ch.placed :
                                ch.placed[i] = lastCall.shown0 + 1
                          THEN 1 ELSE 0))
    /\ (pc = "chapter") ~> (pc = "dispatch" /\ cur = << >>)

\* a chapter whose list ends in a blank sentinel has returned
C19_Witness ==
    /\ ChapterDone
    /\ Len(ch.paras) = 3
    /\ ch.paras[3] = Blank
    /\ ch.paras[2] # Blank
    /\ cur = << >>

\* a chapter with an empty paragraph list has returned
C19_EmptyList ==
    /\ ChapterDone
    /\ ch.paras = << >>
    /\ PagesOfCall = 1

\* the last paragraph is taller than the room of any page of the layout
Oversized ==
    /\ last.needed > Style.y_first - Style.bottom_limit
    /\ last.needed > Style.y_next - Style.bottom_limit

\* C20: a paragraph taller than a full page's room triggers exactly one page
\* break and is drawn whole, every wrapped line of it, on the new page from
\* its content start, running below bottom_limit; the loop goes on.
C20_OversizedParagraph ==
    ParaDone /\ Oversized =>
        /\ shown = last.shown0 + 1
        /\ ShowsIn(lastCall.ops) = shown - lastCall.shown0
        /\ last.y1 = Style.y_next
        /\ Len(last.lines)
              = Len(simpleSplit(last.text,
                                FontOf(config.design, Style.body_role),
                                Style.body_size, Style.max_w))
        /\ \A i \in DOMAIN last.lines : last.lines[i].page = shown + 1
        /\ last.lines[1].y = Style.y_next
        /\ ch.y + Style.para_gap < Style.bottom_limit
        /\ ch.paras[Len(ch.paras)] = last.text
        /\ ch.placed[Len(ch.placed)] = shown + 1

\* an oversized paragraph met after another paragraph of the chapter
C20_Witness ==
    /\ ParaDone
    /\ Oversized
    /\ Len(ch.paras) >= 2
    /\ ch.paras[1] # Blank
    /\ Len(last.lines) > PageLines

-----------------------------------------------------------------------------
\* C21: after every page break y is reset to the y at which the layout starts
\* content on the chapter's first page, so a paragraph that caused a break is
\* drawn from that first-page content start.
C21_ResetToContentStart ==
    (ParaDone /\ shown > last.shown0) => last.y1 = Style.y_first

-----------------------------------------------------------------------------
\* the chrome of each chapter layout, background fill first
ChromeOf(variant) ==
    IF variant = "editorial" THEN << "start_page:background" >>
    ELSE IF variant = "warm" THEN << "start_page:primary", "top_line", "sidebar" >>
    ELSE << "start_page:background", "header_bar", "sidebar" >>

\* the chapter renderer is running or has just returned
InChapter == lastCall.renderer = "chapter" /\ pc \in {"chapter", "dispatch", "done"}

\* C22: every page a chapter produces, the first and every continuation
\* page, begins with the active layout's chrome (editorial: background fill;
\* clean: background fill, header bar, sidebar; warm: primary background
\* fill, top accent line, sidebar): the chapter's first operation and the
\* operation after every finalized page starts a page, every page start is
\* followed at once by the rest of the chrome, and so paragraph text comes
\* only after it.
C22_ChromeOnEveryPage ==
    InChapter =>
        LET ops == lastCall.ops
            chrome == ChromeOf(ch.variant)
            n == Len(chrome)
        IN /\ ops # << >>
           /\ ops[1] = chrome[1]
           /\ \A i \in DOMAIN ops :
                 /\ (ops[i] = "showPage" /\ i < Len(ops)) => ops[i + 1] = chrome[1]
                 /\ ops[i] = chrome[1] =>
                       /\ i + n - 1 <= Len(ops)
                       /\ SubSeq(ops, i, i + n - 1) = chrome
                 /\ ops[i] = "text" =>
                       \E j \in 1..(i - 1) :
                          /\ SubSeq(ops, j, j + n - 1) = chrome
                          /\ j + n - 1 < i
                          /\ \A k \in j..i : ops[k] # "showPage"
           /\ StartsIn(ops) = ShowsIn(ops) + (IF pc = "chapter" THEN 1 ELSE 0)

\* a clean or warm chapter that has returned after two page breaks
C22_Witness ==
    /\ ChapterDone
    /\ ch.variant \in {"clean", "warm"}
    /\ PagesOfCall = 3
    /\ \E i \in DOMAIN ch.placed : ch.placed[i] = lastCall.shown0 + 3

-----------------------------------------------------------------------------
\* the line-height factor of each chapter layout, in 1/100
LineFactorOf(variant) == IF variant = "editorial" THEN 165 ELSE 185

\* the gap after a paragraph: 4 pt in editorial, 6 pt in clean and warm
ParaGapOf(variant) == IF variant = "editorial" THEN 400 ELSE 600

\* C23: the height measured before drawing a paragraph (line count x size x
\* the layout's line-height factor) is the amount by which drawing it lowers
\* y, with the same lines: y after the paragraph is y at draw start minus
\* that height minus the layout's inter-paragraph gap.
C23_MeasuredIsConsumed ==
    ParaDone =>
        /\ last.needed =
              Len(last.lines) * LineHeight(Hp(11), LineFactorOf(ch.variant))
        /\ ch.y = last.y1 - last.needed - ParaGapOf(ch.variant)
        /\ \A i \in DOMAIN last.lines :
              last.lines[i].y =
                 last.y1 - (i - 1) * LineHeight(Hp(11), LineFactorOf(ch.variant))

\* a paragraph of several lines drawn in a layout with the factor 1.85
C23_Witness ==
    /\ ParaDone
    /\ ch.variant \in {"clean", "warm"}
    /\ Len(last.lines) > 1
    /\ last.needed > 0

-----------------------------------------------------------------------------
\* the paragraphs handled so far that are not the blank sentinel
NonBlank == {i \in DOMAIN ch.paras : ch.paras[i] # Blank}

\* the text draws among ops
TextsIn(ops) == Len(SelectSeq(ops, LAMBDA op : op = "text"))

\* C24: within a chapter every non-blank paragraph is drawn exactly once, in
\* input order: one text draw per non-blank paragraph handled, each on a page
\* of this chapter that is not before the page of any earlier paragraph; a
\* second build of the same list handles the paragraphs in the list's order;
\* and a paragraph drawn on the page of the paragraph before it lies below it.
C24_ParagraphOrder ==
    /\ [](InChapter =>
            /\ Len(ch.placed) = Len(ch.paras)
            /\ TextsIn(lastCall.ops) = Cardinality(NonBlank)
            /\ \A i \in DOMAIN ch.paras : ch.paras[i] = Blank <=> ch.placed[i] = 0
            /\ \A i \in NonBlank :
                  /\ ch.placed[i] > lastCall.shown0
                  /\ ch.placed[i] <= shown + 1
                  /\ \A j \in NonBlank : i < j => ch.placed[i] <= ch.placed[j]
            /\ build = 2 =>
                  /\ Len(ch.paras) <= Len(prev.paras)
                  /\ ch.paras = SubSeq(prev.paras, 1, Len(ch.paras)))
    /\ [][(pc = "chapter" /\ pc' = "chapter" /\ last'.kind = "para") =>
             /\ ch'.paras = Append(ch.paras, last'.text)
             /\ TextsIn(lastCall'.ops) = TextsIn(lastCall.ops) + 1
             /\ ch'.placed[Len(ch'.placed)] = shown' + 1
             /\ (last.kind = "para" /\ shown' = shown) =>
                   \A i \in DOMAIN last.lines : \A j \in DOMAIN last'.lines :
                      last'.lines[j].y < last.lines[i].y]_vars

\* three paragraphs drawn in order, the first two on the chapter's first page
\* and the third on its second
C24_Witness ==
    /\ ChapterDone
    /\ Len(ch.paras) = 3
    /\ NonBlank = {1, 2, 3}
    /\ ch.placed = << lastCall.shown0 + 1, lastCall.shown0 + 1, lastCall.shown0 + 2 >>

-----------------------------------------------------------------------------
\* register_bundled_fonts has returned at least once, called on its own
Returned == pc = "register" /\ fn.calls > 0

\* C25: register_bundled_fonts returns, whatever font files are missing or
\* unreadable, a mapping over all four bundled names: a name whose
\* registration succeeded, in this call or an earlier one, maps to itself,
\* any other to its fallback (Italiana and CrimsonPro to Helvetica,
\* CrimsonProItalic to Helvetica-Oblique, DMMono to Courier).
C25_FallbackTable ==
    Returned =>
        /\ DOMAIN fn.resolved =
              {"Italiana", "CrimsonPro", "CrimsonProItalic", "DMMono"}
        /\ \A name \in DOMAIN fn.resolved :
              fn.resolved[name] =
                 IF pdfmetrics[name] > 0 THEN name
                 ELSE IF name = "CrimsonProItalic" THEN "Helvetica-Oblique"
                 ELSE IF name = "DMMono" THEN "Courier"
                 ELSE "Helvetica"

\* a call returning a registered name, one registered by an earlier call and
\* two fallbacks other than Helvetica
C25_Witness ==
    /\ Returned
    /\ fn.calls = 2
    /\ fn.resolved["Italiana"] = "Italiana"
    /\ "Italiana" \notin fn.examined
    /\ fn.resolved["CrimsonPro"] = "CrimsonPro"
    /\ fn.resolved["CrimsonProItalic"] = "Helvetica-Oblique"
    /\ fn.resolved["DMMono"] = "Courier"

-----------------------------------------------------------------------------
\* C30: over any sequence of register_bundled_fonts calls in one thread the
\* registered set only grows and holds only names whose registration
\* succeeded; a name already in it is neither looked up nor passed to the
\* font service again; a font whose file is missing or fails to parse is not
\* added to the set, so every later call looks it up and warns again.
C30_SequentialCache ==
    /\ [](pc = "register" =>
            \A name \in Range(BUNDLED_FONTS) :
               /\ name \in registered <=> pdfmetrics[name] = 1
               /\ pdfmetrics[name] <= 1)
    /\ [][fn'.calls = fn.calls + 1 =>
             /\ registered \subseteq registered'
             /\ \A name \in Range(BUNDLED_FONTS) :
                   /\ name \in registered =>
                         /\ pdfmetrics'[name] = pdfmetrics[name]
                         /\ name \notin fn'.examined
                         /\ name \notin fn'.warned
                   /\ (name \notin registered /\ files[name] = "ok") =>
                         /\ name \in registered'
                         /\ pdfmetrics'[name] = pdfmetrics[name] + 1
                         /\ name \notin fn'.warned
                   /\ (name \notin registered /\ files[name] # "ok") =>
                         /\ name \notin registered'
                         /\ pdfmetrics'[name] = pdfmetrics[name]
                         /\ name \in fn'.examined
                         /\ name \in fn'.warned]_vars

\* a third call warning again about a font that failed in both calls before,
\* and skipping a font an earlier call registered
C30_Witness ==
    /\ Returned
    /\ fn.calls = 3
    /\ pdfmetrics["Italiana"] = 0
    /\ "Italiana" \in fn.warned
    /\ "DMMono" \in registered
    /\ "DMMono" \notin fn.examined
    /\ pdfmetrics["DMMono"] = 1

-----------------------------------------------------------------------------
\* the operations that count a page: start_page and the covers' increment
Counting == {"start_page:background", "start_page:primary", "page_num+=1"}

\* the canvas as the last renderer invocation found it
CanvasBefore ==
    [page_num |-> lastCall.pn0, shown |-> lastCall.shown0, cur |-> << >>,
     numbers |-> << >>]

\* the page counter after the first i operations of the last invocation
CounterAfter(i) == RunOps(SubSeq(lastCall.ops, 1, i), CanvasBefore).page_num

\* build is between renderer invocations: before the first, after any, at
\* its end or stopped by an unknown page type
Between == pc \in {"dispatch", "done", "raised"}

\* C26: at the start of a build and after every renderer invocation the page
\* counter equals the number of pages finalized so far; it starts at 0, never
\* decreases, changes only by +1 and only at an operation that starts a page,
\* and finalizing a page (new_page) leaves it alone.
C26_CounterConsistent ==
    /\ [](/\ Between => ctx.page_num = shown
          /\ (Between /\ calls = << >>) => ctx.page_num = 0
          /\ pc = "chapter" => ctx.page_num = shown + 1
          /\ (Between \/ pc = "chapter") =>
                /\ CounterAfter(Len(lastCall.ops)) = ctx.page_num
                /\ \A i \in DOMAIN lastCall.ops :
                      CounterAfter(i) - CounterAfter(i - 1) =
                         IF lastCall.ops[i] \in Counting THEN 1 ELSE 0)
    /\ [][ctx'.page_num >= ctx.page_num]_vars

\* two renderers have returned, the second one a chapter of two pages
C26_Witness ==
    /\ Between
    /\ Len(calls) = 2
    /\ lastCall.renderer = "chapter"
    /\ lastCall.pn0 = 1
    /\ ctx.page_num = 3
    /\ shown = 3

\* the page-number draws among ops
IsNumber(op) == op \in {"page_number:right", "page_number:center"}

\* C27: a page number that is drawn is the 1-based position in the document
\* of the page it is drawn on, is drawn while that page is still open, the
\* page being finalized right after, and is never drawn on the first page of
\* the document.
C27_PageNumberCorrect ==
    /\ \A k \in DOMAIN numbers :
          /\ numbers[k].printed = numbers[k].page
          /\ numbers[k].page >= 2
          /\ numbers[k].page <= shown
          /\ \A j \in DOMAIN numbers : j < k => numbers[j].page < numbers[k].page
    /\ (Between \/ pc = "chapter") =>
          \A i \in DOMAIN lastCall.ops :
             IsNumber(lastCall.ops[i]) =>
                /\ i < Len(lastCall.ops)
                /\ lastCall.ops[i + 1] = "showPage"

\* a build whose second page is the first page of a chapter that breaks:
\* pages 2 and 3 carry their numbers, page 1 carries none
C27_Witness ==
    /\ pc = "done"
    /\ calls = << "cover", "chapter" >>
    /\ shown = 3
    /\ numbers = << [printed |-> 2, page |-> 2], [printed |-> 3, page |-> 3] >>

-----------------------------------------------------------------------------
\* the largest element of a non-empty set of numbers
Max(S) == CHOOSE m \in S : \A x \in S : x <= m

\* the page that was open when the loop reached paragraph i
PageBefore(i) ==
    Max({lastCall.shown0 + 1} \cup {ch.placed[j] : j \in {k \in NonBlank : k < i}})

\* the paragraphs whose iteration broke the page
Breaks == {i \in NonBlank : ch.placed[i] > PageBefore(i)}

\* the pages of the chapter after its first
Continuations == (lastCall.shown0 + 2)..shown

\* the text has a word: it wraps to at least one line
HasWord(text) == \E k \in DOMAIN text : text[k] > 0

\* a chapter produces 1 + breaks pages, at most one break per non-blank
\* paragraph, and so between 1 and n + 1 pages for n non-blank paragraphs;
\* blank sentinels alone create no page
PageCount ==
    /\ PagesOfCall = 1 + Cardinality(Breaks)
    /\ \A i \in NonBlank : ch.placed[i] - PageBefore(i) \in {0, 1}
    /\ PagesOfCall >= 1
    /\ PagesOfCall <= Cardinality(NonBlank) + 1
    /\ NonBlank = {} => PagesOfCall = 1

\* C28 as stated: the page count, and every continuation page has the lines
\* of at least one paragraph drawn on it.
C28_NoEmptyContinuation ==
    ChapterDone =>
        /\ PageCount
        /\ \A p \in Continuations :
              \E i \in NonBlank : ch.placed[i] = p /\ HasWord(ch.paras[i])

\* C28: the page count, and every continuation page was started by a
\* non-blank paragraph, which is the first one placed on it and is drawn on
\* it with all its lines; the page carries text unless every paragraph placed
\* on it consists of whitespace only.
C28_PageCount ==
    ChapterDone =>
        /\ PageCount
        /\ \A p \in Continuations :
              /\ \E i \in Breaks : ch.placed[i] = p
              /\ (\A i \in NonBlank : ch.placed[i] = p => ~HasWord(ch.paras[i]))
                 \/ (\E i \in NonBlank : ch.placed[i] = p /\ HasWord(ch.paras[i]))
        /\ \A i \in NonBlank :
              HasWord(ch.paras[i]) <=>
                 Len(simpleSplit(ch.paras[i], FontOf(config.design, "body"), Hp(11), Style.max_w)) > 0

\* a chapter of three paragraphs on three pages, each continuation page
\* started by a paragraph with words
C28_Witness ==
    /\ ChapterDone
    /\ PagesOfCall = 3
    /\ Cardinality(Breaks) = 2
    /\ \A i \in NonBlank : HasWord(ch.paras[i])

-----------------------------------------------------------------------------
\* the room of a continuation page: from its content start to bottom_limit
RoomAfterBreak == Style.y_next - BottomLimitOf(ch.variant)

\* C29: every line of a paragraph no taller than the room of a continuation
\* page is drawn at a y strictly above bottom_limit, with or without a break
\* before it; a line at or below bottom_limit belongs to a taller paragraph.
C29_AboveBottomLimit ==
    ParaDone =>
        /\ last.needed <= RoomAfterBreak =>
              \A i \in DOMAIN last.lines :
                 last.lines[i].y > BottomLimitOf(ch.variant)
        /\ (\E i \in DOMAIN last.lines :
               last.lines[i].y <= BottomLimitOf(ch.variant)) =>
              last.needed > RoomAfterBreak

\* a paragraph of as many lines as a page holds, drawn after a break with its
\* last line one line height or little more above bottom_limit
C29_Witness ==
    /\ ParaDone
    /\ shown > last.shown0
    /\ Len(last.lines) = PageLines
    /\ last.needed <= RoomAfterBreak
    /\ last.lines[PageLines].y - BottomLimitOf(ch.variant) < 2 * LineHeight(Hp(11), LineFactorOf(ch.variant))

====
